---- MODULE Spec2Model ----
(***************************************************************************)
(* Model of scripts/download_people_assets.py: the portrait downloader.    *)
(* main() walks the parsed celebrities one at a time; each one is either   *)
(* served from the previous manifest or resolved through resolve_source    *)
(* (a chain of provider clients) and downloaded; results and failures are  *)
(* persisted once the loop is over.                                        *)
(*                                                                         *)
(* Text is modelled as a sequence of tokens (a token is one character or   *)
(* a run of ordinary characters), a URL as a record of scheme, host        *)
(* labels, path segments and file extension, and an HTTP response as a     *)
(* record the environment chooses at each request.                         *)
(***************************************************************************)
EXTENDS Integers, Sequences, FiniteSets, TLC

\* ------------------------------------------------------------------ bounds
MaxEntities == 2      \* celebrities parsed from people.html
MaxManifest == 1      \* entries of the manifest left by a previous run
MaxFallback == 1      \* lines of the fallback list

\* --------------------------------------------------------- module constants
\* The names are romanised; only membership in the two tables matters.
ZhouKeyu == <<"ZhouKeyu">>
LiZaimin == <<"LiZaimin">>
PlainX == <<"X">>

BAIKE_PREFERRED ==
    { <<"ZhouKeyu">>, <<"YaoMingming">>, <<"ZhangYao">>, <<"LiMake">>,
      <<"WangHaoxuan">>, <<"LaiGuanlin">>, <<"WeiZiyue">> }

MANUAL_WIKI_OVERRIDES ==
    [n \in {LiZaimin} |-> [lang |-> "en", title |-> <<"Lee_Jeno">>]]

SUPPORTED_EXTS == {".jpg", ".jpeg", ".png", ".webp", ".gif"}

\* --------------------------------------------------------------- text, URLs
NoUrl == [scheme |-> "", host |-> <<>>, path |-> <<>>, ext |-> ""]

Url(s, h, p, e) == [scheme |-> s, host |-> h, path |-> p, ext |-> e]

Last(s) == s[Len(s)]

\* quote(title, safe=""): every character outside the unreserved set is
\* percent-encoded; a token of ordinary characters is left as it is.
QuoteChar(c) ==
    CASE c = " " -> "%20"
      [] c = "/" -> "%2F"
      [] c = ":" -> "%3A"
      [] c = "?" -> "%3F"
      [] OTHER -> c

quote_wiki_title(title) == [i \in 1..Len(title) |-> QuoteChar(title[i])]

ensure_https(url) ==
    IF url.scheme = "//" THEN [url EXCEPT !.scheme = "https"]
    ELSE IF url.scheme = "http" THEN [url EXCEPT !.scheme = "https"]
    ELSE url

Lower(e) ==
    CASE e = ".JPG" -> ".jpg"
      [] e = ".PNG" -> ".png"
      [] e = ".JPEG" -> ".jpeg"
      [] OTHER -> e

determine_extension(url) ==
    LET ext == Lower(url.ext)
    IN IF ext \in SUPPORTED_EXTS
       THEN (IF ext = ".jpeg" THEN ".jpg" ELSE ext)
       ELSE ".jpg"

UnsafeChars == {"\\", "/", ":", "*", "?", "\"", "<", ">", "|"}

\* re.sub(r"[\\/:*?\"<>|]+", "_", name): every maximal run of unsafe
\* characters becomes one underscore.
RECURSIVE SubUnsafe(_, _)
SubUnsafe(name, i) ==
    IF i > Len(name) THEN <<>>
    ELSE IF name[i] \in UnsafeChars
         THEN (IF i > 1 /\ name[i-1] \in UnsafeChars
               THEN SubUnsafe(name, i + 1)
               ELSE <<"_">> \o SubUnsafe(name, i + 1))
         ELSE <<name[i]>> \o SubUnsafe(name, i + 1)

\* the spaces are left in the name
sanitize_filenameKeepSpaces(name, ext) ==
    SubUnsafe(name, 1) \o <<ext>>

sanitize_filename(name, ext) ==
    LET safe == SubUnsafe(name, 1)
        nospace == SelectSeq(safe, LAMBDA c : c # " ")
    IN nospace \o <<ext>>

Upper(lang) ==
    CASE lang = "en" -> "EN"
      [] lang = "zh" -> "ZH"
      [] lang = "ja" -> "JA"
      [] OTHER -> lang

\* "needle" in text, at the granularity of host labels / path segments.
HostContains(h, a, b) == \E i \in 1..(Len(h) - 1) : h[i] = a /\ h[i+1] = b

\* -------------------------------------------------------------- exceptions
\* cls is the Python class, the other fields are what str(exc) shows.
Exc(cls, text, status, title, host) ==
    [cls |-> cls, text |-> text, status |-> status, title |-> title, host |-> host]

NoExc == Exc("", "", 0, <<>>, <<>>)

DownloadError(text, status, title) == Exc("DownloadError", text, status, title, <<>>)

\* session.get raising (timeout, connection error): a requests exception.
RequestException(url) == Exc("RequestException", "Read timed out", 0, <<>>, url.host)

\* resp.json() on a body that is not JSON.
JSONDecodeError == Exc("JSONDecodeError", "Expecting value", 0, <<>>, <<>>)

Str(exc) == [text |-> exc.text, status |-> exc.status, title |-> exc.title, host |-> exc.host]

\* ------------------------------------------------ results of a client call
NoSource == [image_url |-> NoUrl, page_url |-> NoUrl, provider |-> <<>>]

Source(image, page, provider) ==
    [image_url |-> image, page_url |-> page, provider |-> provider]

\* reqs: the requests the call issued, in order.
Returned(src, reqs) == [tag |-> "ok", value |-> src, exc |-> NoExc, reqs |-> reqs]

Raised(exc, reqs) == [tag |-> "raise", value |-> NoSource, exc |-> exc, reqs |-> reqs]

Request(url, key) == [url |-> url, key |-> key]

\* ----------------------------------------------------------- HTTP responses
\* exc: session.get raised instead of returning.  An HTML body is modelled by
\* what the three patterns would match in it, a JSON body by its fields.
Html(og, og_rev, image_src) == [og |-> og, og_rev |-> og_rev, image_src |-> image_src]

NoHtml == Html(NoUrl, NoUrl, NoUrl)

PageResp(exc, status, html) == [exc |-> exc, status |-> status, html |-> html]

SummaryResp(exc, status, json_ok, type, originalimage, thumbnail, desktop, mobile) ==
    [exc |-> exc, status |-> status, json_ok |-> json_ok, type |-> type,
     originalimage |-> originalimage, thumbnail |-> thumbnail,
     desktop |-> desktop, mobile |-> mobile]

BaikeResp(exc, status, json_ok, url, wapUrl, image) ==
    [exc |-> exc, status |-> status, json_ok |-> json_ok, url |-> url,
     wapUrl |-> wapUrl, image |-> image]

ImageResp(exc, status) == [exc |-> exc, status |-> status]

\* a or b, for values where the empty URL is falsy
Or(a, b) == IF a # NoUrl THEN a ELSE b

\* ------------------------------------------------------------------ clients
SummaryUrl(lang, title) ==
    Url("https", <<lang, "wikipedia", "org">>,
        <<"api", "rest_v1", "page", "summary">> \o quote_wiki_title(title), "")

fetch_wikipedia_payload(lang, title, resp) ==
    LET url == SummaryUrl(lang, title)
        reqs == <<Request(url, <<>>)>>
    IN IF resp.exc THEN Raised(RequestException(url), reqs)
       ELSE IF resp.status # 200
            THEN Raised(DownloadError("Wikipedia summary HTTP", resp.status, title), reqs)
       ELSE IF ~resp.json_ok THEN Raised(JSONDecodeError, reqs)
       ELSE IF resp.type = "not_found"
            THEN Raised(DownloadError("Wikipedia page not found", 0, <<>>), reqs)
       ELSE [tag |-> "ok", value |-> NoSource, exc |-> NoExc, reqs |-> reqs]

\* [tag, image, exc, reqs]; image = NoUrl is Python's None
fetch_wikipedia_page_image(page_url, resp) ==
    LET reqs == <<Request(page_url, <<>>)>>
        img_match == Or(resp.html.og, resp.html.og_rev)
    IN IF resp.exc
       THEN [tag |-> "raise", image |-> NoUrl, exc |-> RequestException(page_url), reqs |-> reqs]
       ELSE IF resp.status # 200
            THEN [tag |-> "ok", image |-> NoUrl, exc |-> NoExc, reqs |-> reqs]
       ELSE IF img_match = NoUrl
            THEN [tag |-> "ok", image |-> NoUrl, exc |-> NoExc, reqs |-> reqs]
       ELSE [tag |-> "ok", image |-> ensure_https(img_match), exc |-> NoExc, reqs |-> reqs]

\* the thumbnail is read before the original image
build_wikipedia_sourceThumbFirst(lang, title, resp, pageResp) ==
    LET payload == fetch_wikipedia_payload(lang, title, resp)
        image == Or(resp.thumbnail, resp.originalimage)
        page_url == Or(Or(resp.desktop, resp.mobile),
                       Url("https", <<lang, "wikipedia", "org">>,
                           <<"wiki">> \o quote_wiki_title(title), ""))
        provider == <<Upper(lang), " Wikipedia">>
        html == fetch_wikipedia_page_image(page_url, pageResp)
    IN IF payload.tag = "raise" THEN payload
       ELSE IF image # NoUrl
            THEN Returned(Source(ensure_https(image), page_url, provider), payload.reqs)
       ELSE IF html.tag = "raise" THEN Raised(html.exc, payload.reqs \o html.reqs)
       ELSE IF html.image # NoUrl
            THEN Returned(Source(ensure_https(html.image), page_url, provider),
                          payload.reqs \o html.reqs)
       ELSE Raised(DownloadError("Wikipedia summary missing images", 0, <<>>),
                   payload.reqs \o html.reqs)

build_wikipedia_source(lang, title, resp, pageResp) ==
    LET payload == fetch_wikipedia_payload(lang, title, resp)
        image == Or(resp.originalimage, resp.thumbnail)
        page_url == Or(Or(resp.desktop, resp.mobile),
                       Url("https", <<lang, "wikipedia", "org">>,
                           <<"wiki">> \o quote_wiki_title(title), ""))
        provider == <<Upper(lang), " Wikipedia">>
        html == fetch_wikipedia_page_image(page_url, pageResp)
    IN IF payload.tag = "raise" THEN payload
       ELSE IF image # NoUrl
            THEN Returned(Source(ensure_https(image), page_url, provider), payload.reqs)
       ELSE IF html.tag = "raise" THEN Raised(html.exc, payload.reqs \o html.reqs)
       ELSE IF html.image # NoUrl
            THEN Returned(Source(ensure_https(html.image), page_url, provider),
                          payload.reqs \o html.reqs)
       ELSE Raised(DownloadError("Wikipedia summary missing images", 0, <<>>),
                   payload.reqs \o html.reqs)

\* "baike.baidu.com" in page_url: the test is on the whole URL text.
ContainsBaike(page_url) ==
    \/ \E i \in 1..(Len(page_url.host) - 2) :
          /\ page_url.host[i] = "baike"
          /\ page_url.host[i+1] = "baidu"
          /\ page_url.host[i+2] = "com"
    \/ \E i \in 1..Len(page_url.path) : page_url.path[i] = "baike.baidu.com"

fetch_generic_page_image(page_url, resp) ==
    LET reqs == <<Request(page_url, <<>>)>>
        img_match == Or(Or(resp.html.og, resp.html.og_rev), resp.html.image_src)
        provider == IF ContainsBaike(page_url) THEN <<"Baidu Baike">> ELSE page_url.host
    IN IF resp.exc THEN Raised(RequestException(page_url), reqs)
       ELSE IF resp.status # 200
            THEN Raised(DownloadError("Fallback page HTTP", resp.status, <<>>), reqs)
       ELSE IF img_match = NoUrl
            THEN Raised(DownloadError("Fallback page missing og:image", 0, <<>>), reqs)
       ELSE Returned(Source(ensure_https(img_match), page_url, provider), reqs)

BaikeApiUrl ==
    Url("https", <<"baike", "baidu", "com">>, <<"api", "openapi", "BaikeLemmaCardApi">>, "")

fetch_baike_api_image(name, resp, pageResp) ==
    LET reqs == <<Request(BaikeApiUrl, name)>>
        page_url == Or(resp.url, resp.wapUrl)
        guessed == Url("https", <<"baike", "baidu", "com">>,
                       <<"item">> \o [i \in 1..Len(name) |-> QuoteChar(name[i])], "")
        viaGuess == fetch_generic_page_image(guessed, pageResp)
        viaPage == fetch_generic_page_image(ensure_https(page_url), pageResp)
    IN IF resp.exc THEN Raised(RequestException(BaikeApiUrl), reqs)
       ELSE IF resp.status # 200
            THEN Raised(DownloadError("Baidu Baike API HTTP", resp.status, <<>>), reqs)
       ELSE IF ~resp.json_ok THEN Raised(JSONDecodeError, reqs)
       ELSE IF page_url = NoUrl
            THEN [viaGuess EXCEPT !.reqs = reqs \o @]
       ELSE IF resp.image # NoUrl
            THEN Returned(Source(ensure_https(resp.image), ensure_https(page_url),
                                 <<"Baidu Baike">>), reqs)
       ELSE [viaPage EXCEPT !.reqs = reqs \o @]

\* [tag, exc]: on "ok" the bytes are written to the destination
download_file(url, resp) ==
    IF resp.exc THEN [tag |-> "raise", exc |-> RequestException(url)]
    ELSE IF resp.status # 200
         THEN [tag |-> "raise", exc |-> DownloadError("Image HTTP", resp.status, <<>>)]
    ELSE [tag |-> "ok", exc |-> NoExc]

\* ------------------------------------------------ what the environment sends
ImgOrig == Url("https", <<"upload", "wikimedia", "org">>, <<"orig">>, ".png")
ImgOg == Url("//", <<"upload", "wikimedia", "org">>, <<"og">>, ".JPEG")
ImgBaike == Url("http", <<"bkimg", "cdn", "bcebos", "com">>, <<"pic">>, "")
BaikePage == Url("http", <<"baike", "baidu", "com">>, <<"item", "1">>, "")

SummaryResps ==
    { SummaryResp(TRUE, 0, FALSE, "", NoUrl, NoUrl, NoUrl, NoUrl),
      SummaryResp(FALSE, 404, TRUE, "", NoUrl, NoUrl, NoUrl, NoUrl),
      SummaryResp(FALSE, 200, FALSE, "", NoUrl, NoUrl, NoUrl, NoUrl),
      SummaryResp(FALSE, 200, TRUE, "not_found", NoUrl, NoUrl, NoUrl, NoUrl),
      SummaryResp(FALSE, 200, TRUE, "standard", ImgOrig, NoUrl, NoUrl, NoUrl),
      SummaryResp(FALSE, 200, TRUE, "standard", NoUrl, NoUrl, NoUrl, NoUrl) }

PageResps ==
    { PageResp(FALSE, 404, NoHtml),
      PageResp(FALSE, 200, Html(ImgOg, NoUrl, NoUrl)) }

BaikeResps ==
    { BaikeResp(TRUE, 0, FALSE, NoUrl, NoUrl, NoUrl),
      BaikeResp(FALSE, 500, TRUE, NoUrl, NoUrl, NoUrl),
      BaikeResp(FALSE, 200, TRUE, BaikePage, NoUrl, ImgBaike),
      BaikeResp(FALSE, 200, TRUE, BaikePage, NoUrl, NoUrl),
      BaikeResp(FALSE, 200, TRUE, NoUrl, NoUrl, NoUrl) }

ImageResps == { ImageResp(FALSE, 404), ImageResp(FALSE, 200) }

\* ----------------------------------------------------------------- inputs
Names == {ZhouKeyu, LiZaimin, PlainX}

\* load_celebrities: one record per displayName, first occurrence wins
Entity(name) == [name |-> name, wiki_lang |-> "zh", wiki_title |-> name]

RECURSIVE SeqsUpTo(_, _)
SeqsUpTo(S, n) ==
    IF n = 0 THEN { <<>> }
    ELSE LET shorter == SeqsUpTo(S, n - 1)
         IN shorter \cup { Append(q, x) : q \in shorter, x \in S }

Distinct(q) == \A i, j \in 1..Len(q) : i # j => q[i] # q[j]

\* every match kept, a repeated displayName included
CelebrityListsRepeated ==
    { [i \in 1..Len(q) |-> Entity(q[i])] : q \in SeqsUpTo(Names, MaxEntities) }

CelebrityLists ==
    { [i \in 1..Len(q) |-> Entity(q[i])] :
        q \in { r \in SeqsUpTo(Names, MaxEntities) : Distinct(r) } }

FallbackUrls ==
    { Url("https", <<"ja", "wikipedia", "org">>, <<"wiki", "T">>, ""),
      Url("https", <<"weibo", "com">>, <<"u", "1">>, "") }

\* load_fallback_sources: name -> the first URL of its line
FallbackMaps ==
    UNION { [D -> FallbackUrls] : D \in { E \in SUBSET Names : Cardinality(E) <= MaxFallback } }

\* A JSON value found under "path": absent key, null, or a string.
PathAbsent == [t |-> "absent", s |-> <<>>]
PathNull == [t |-> "null", s |-> <<>>]
PathStr(s) == [t |-> "str", s |-> s]

AssetPath(filename) == <<"assets/people/">> \o filename

ManifestEntry(name, path, sourceUrl, imageUrl, provider) ==
    [name |-> name, path |-> path, sourceUrl |-> sourceUrl,
     imageUrl |-> imageUrl, provider |-> provider]

OldImage == Url("https", <<"old", "example">>, <<"img">>, ".jpg")
OldPage == Url("https", <<"old", "example">>, <<"page">>, "")

PriorPaths(name) ==
    { PathAbsent, PathNull, PathStr(<<>>), PathStr(AssetPath(sanitize_filename(name, ".jpg"))) }

PriorEntries ==
    UNION { { ManifestEntry(n, p, OldPage, OldImage, <<"Old">>) : p \in PriorPaths(n) } :
              n \in Names }

\* manifest.json as found on disk
FileAbsent == [kind |-> "absent", items |-> <<>>]
FileBadJson == [kind |-> "badjson", items |-> <<>>]
FileBadShape == [kind |-> "badshape", items |-> <<>>]
FileList(items) == [kind |-> "list", items |-> items]

PriorManifests ==
    {FileAbsent, FileBadJson, FileBadShape}
      \cup { FileList(q) : q \in SeqsUpTo(PriorEntries, MaxManifest) }

StaleFailure == [name |-> PlainX, error |-> Str(DownloadError("Image HTTP", 404, <<>>))]

PriorFailureLogs == { FileAbsent, FileList(<<StaleFailure>>) }

StrPathsOf(items) ==
    { items[i].path.s : i \in { j \in 1..Len(items) : items[j].path.t = "str" } } \ { <<>> }

NoCall == [fn |-> "main"]

\* ------------------------------------------------------------------- state
VARIABLES
    celebrities,        \* load_celebrities()
    fallback_map,       \* load_fallback_sources()
    FORCE_DOWNLOAD,     \* bool(os.environ.get("FORCE_DOWNLOAD_ASSETS"))
    manifest,           \* assets/people/manifest.json on disk
    catalog,            \* assets/people/catalog.csv on disk
    failure_log,        \* assets/people/download_failures.json on disk
    files,              \* the other paths that exist under ROOT
    existing_manifest,  \* name -> entry, read once at the start
    results,
    failures,
    pc,                 \* where main() is
    idx,                \* 1-based position of the loop
    stage,              \* where resolve_source is: the strategy to try next
    last_error,
    source,             \* what resolve_source returned
    attempts,           \* history: the strategies tried for the current entity
    outcome,            \* history: what the latest of them returned or raised
    atStart,            \* history: the disk as the run found it
    resolveCalls,       \* history: names resolve_source was called with
    downloadCalls,      \* history: names download_file was called for
    call,               \* a single function call: the function and its arguments
    ret                 \* <<>> before the call, <<value>> after it

vars == << celebrities, fallback_map, FORCE_DOWNLOAD, manifest, catalog, failure_log,
           files, existing_manifest, results, failures, pc, idx, stage, last_error,
           source, attempts, outcome, atStart, resolveCalls, downloadCalls, call, ret >>

\* what no step of main() changes
inputs == << celebrities, fallback_map, FORCE_DOWNLOAD, atStart, call, ret >>
disk == << manifest, catalog, failure_log >>

Init ==
    /\ celebrities \in CelebrityLists
    /\ fallback_map \in FallbackMaps
    /\ FORCE_DOWNLOAD \in BOOLEAN
    /\ manifest \in PriorManifests
    /\ catalog = (IF manifest.kind = "list" THEN manifest ELSE FileAbsent)
    /\ failure_log \in PriorFailureLogs
    /\ files \in SUBSET StrPathsOf(manifest.items)
    /\ existing_manifest = [n \in {} |-> 0]
    /\ results = <<>>
    /\ failures = <<>>
    /\ pc = "start"
    /\ idx = 1
    /\ stage = 0
    /\ last_error = NoExc
    /\ source = NoSource
    /\ attempts = <<>>
    /\ outcome = Returned(NoSource, <<>>)
    /\ atStart = [manifest |-> manifest, catalog |-> catalog,
                  failure_log |-> failure_log, files |-> files]
    /\ resolveCalls = <<>>
    /\ downloadCalls = <<>>
    /\ call = NoCall
    /\ ret = <<>>

\* {item["name"]: item for item in existing_data}: a later item replaces an
\* earlier one of the same name
ManifestDict(items) ==
    [n \in { items[i].name : i \in 1..Len(items) } |->
        LET last == CHOOSE i \in 1..Len(items) :
                       /\ items[i].name = n
                       /\ \A j \in 1..Len(items) : items[j].name = n => j <= i
        IN items[last]]

\* lines 264-279
Start ==
    /\ pc = "start"
    /\ IF celebrities = <<>>
       THEN pc' = "exit" /\ UNCHANGED existing_manifest
       ELSE CASE manifest.kind = "list" ->
                    pc' = "loop" /\ existing_manifest' = ManifestDict(manifest.items)
              [] manifest.kind = "badshape" ->
                    pc' = "crash_load" /\ UNCHANGED existing_manifest
              [] OTHER ->
                    pc' = "loop" /\ UNCHANGED existing_manifest
    /\ UNCHANGED << inputs, disk, files, results, failures, idx, stage, last_error,
                    source, attempts, outcome, resolveCalls, downloadCalls >>

\* existing_entry.get("path", "")
EntryPath(existing_entry) ==
    IF existing_entry.path.t = "absent" THEN PathStr(<<>>) ELSE existing_entry.path

\* a test that finds no file
PathExistsRootOnly(path, fs) == path.s = <<>>

\* (ROOT / path).exists(): ROOT / "" is ROOT itself
PathExists(path, fs) == path.s = <<>> \/ path.s \in fs

\* a cache check that does not look at FORCE_DOWNLOAD
CacheLookupIgnoreForce(name, force, existing, fs) ==
    IF name \notin DOMAIN existing THEN "miss"
    ELSE IF EntryPath(existing[name]).t = "null" THEN "error"
    ELSE IF PathExists(EntryPath(existing[name]), fs) THEN "hit"
    ELSE "miss"

\* lines 284-290: "hit" takes the skip path, "miss" goes on to the network,
\* "error" is ROOT / None raising TypeError
CacheLookup(name, force, existing, fs) ==
    IF force \/ name \notin DOMAIN existing THEN "miss"
    ELSE IF EntryPath(existing[name]).t = "null" THEN "error"
    ELSE IF PathExists(EntryPath(existing[name]), fs) THEN "hit"
    ELSE "miss"

\* persistence placed inside the loop body: it runs once the first entity is done
LoopDoneAfterFirst(i, celebs) == i > 1

\* line 281: the for loop has gone through every celebrity
LoopDone(i, celebs) == i > Len(celebs)

InLoop == pc = "loop" /\ idx <= Len(celebrities)

entry == celebrities[idx]

\* lines 284-290, the skip path
SkipCached ==
    /\ InLoop
    /\ CacheLookup(entry.name, FORCE_DOWNLOAD, existing_manifest, files) = "hit"
    /\ results' = Append(results, existing_manifest[entry.name])
    /\ idx' = idx + 1
    /\ attempts' = <<>>
    /\ outcome' = Returned(NoSource, <<>>)
    /\ UNCHANGED << inputs, disk, files, existing_manifest, failures, pc, stage,
                    last_error, source, resolveCalls, downloadCalls >>

\* line 286 raising outside the try block
CacheCheckCrash ==
    /\ InLoop
    /\ CacheLookup(entry.name, FORCE_DOWNLOAD, existing_manifest, files) = "error"
    /\ pc' = "crash"
    /\ UNCHANGED << inputs, disk, files, existing_manifest, results, failures, idx,
                    stage, last_error, source, attempts, outcome, resolveCalls, downloadCalls >>

\* A chain that forgets the manual override
NextStageSkipOverride(done, name, fmap) ==
    IF done = 0 /\ name \in BAIKE_PREFERRED THEN 1
    ELSE IF done <= 2 THEN 3
    ELSE IF done = 3 /\ name \in DOMAIN fmap THEN 4
    ELSE 5

\* A chain that asks the encyclopedia first even for a preferred name
NextStagePreferredLate(done, name, fmap) ==
    IF done = 0 /\ name \in DOMAIN MANUAL_WIKI_OVERRIDES THEN 2
    ELSE IF done = 0 /\ name \in BAIKE_PREFERRED THEN 3
    ELSE IF done <= 2 THEN 3
    ELSE IF done = 3 /\ name \in DOMAIN fmap THEN 4
    ELSE 5

\* The strategy resolve_source tries after `done` (0: on entry), lines 227-255
NextStage(done, name, fmap) ==
    IF done = 0 /\ name \in BAIKE_PREFERRED THEN 1
    ELSE IF done <= 1 /\ name \in DOMAIN MANUAL_WIKI_OVERRIDES THEN 2
    ELSE IF done <= 2 THEN 3
    ELSE IF done = 3 /\ name \in DOMAIN fmap THEN 4
    ELSE 5

\* lines 291-300: the call of resolve_source
BeginResolve ==
    /\ InLoop
    /\ CacheLookup(entry.name, FORCE_DOWNLOAD, existing_manifest, files) = "miss"
    /\ pc' = "resolve"
    /\ stage' = NextStage(0, entry.name, fallback_map)
    /\ attempts' = <<>>
    /\ outcome' = Returned(NoSource, <<>>)
    /\ resolveCalls' = Append(resolveCalls, entry.name)
    /\ UNCHANGED << inputs, disk, files, existing_manifest, results, failures, idx,
                    last_error, source, downloadCalls >>

\* `except DownloadError`: the only class resolve_source catches
Caught(exc) == exc.cls = "DownloadError"

\* raise without the assignment of line 258
ExhaustedErrorStale(last, baike_err) == last

\* lines 257-260: last_error = baike_err; raise last_error
ExhaustedError(last, baike_err) == baike_err

\* One line of the history: the strategy, how it ended, its first request
Attempt(strategy, out) ==
    [strategy |-> strategy, tag |-> out.tag, req |-> out.reqs[1]]

\* lines 315-317: the except clause of main
EntityFailed(exc) ==
    /\ failures' = Append(failures, [name |-> entry.name, error |-> Str(exc)])
    /\ idx' = idx + 1
    /\ pc' = "loop"
    /\ stage' = 0
    /\ last_error' = NoExc
    /\ source' = NoSource

\* What resolve_source does with the outcome of strategy `strategy`
Handle(strategy, out) ==
    /\ attempts' = Append(attempts, Attempt(strategy, out))
    /\ outcome' = out
    /\ IF out.tag = "ok"
       THEN /\ source' = out.value
            /\ pc' = "download"
            /\ stage' = 0
            /\ last_error' = NoExc
            /\ UNCHANGED << failures, idx >>
       ELSE IF Caught(out.exc)
       THEN IF strategy = 5
            THEN EntityFailed(ExhaustedError(last_error, out.exc))
            ELSE /\ stage' = NextStage(strategy, entry.name, fallback_map)
                 /\ last_error' = (IF strategy >= 3 THEN out.exc ELSE last_error)
                 /\ UNCHANGED << failures, idx, pc, source >>
       ELSE EntityFailed(out.exc)
    /\ UNCHANGED << inputs, disk, files, existing_manifest, results,
                    resolveCalls, downloadCalls >>

InResolve(s) == pc = "resolve" /\ stage = s

\* lines 227-231
TryBaikePreferred ==
    /\ InResolve(1)
    /\ \E resp \in BaikeResps, pageResp \in PageResps :
          Handle(1, fetch_baike_api_image(entry.name, resp, pageResp))

\* lines 232-237
TryOverride ==
    /\ InResolve(2)
    /\ \E resp \in SummaryResps, pageResp \in PageResps :
          LET override == MANUAL_WIKI_OVERRIDES[entry.name]
          IN Handle(2, build_wikipedia_source(override.lang, override.title, resp, pageResp))

\* lines 238-241
TryWiki ==
    /\ InResolve(3)
    /\ \E resp \in SummaryResps, pageResp \in PageResps :
          Handle(3, build_wikipedia_source(entry.wiki_lang, entry.wiki_title, resp, pageResp))

\* lines 245-251
FallbackSource(fallback_url, wiki_title, resp, pageResp) ==
    LET domain == fallback_url.host
        lang == domain[1]
        title == IF Last(fallback_url.path) # "" THEN <<Last(fallback_url.path)>>
                 ELSE wiki_title
    IN IF HostContains(domain, "wikipedia", "org")
       THEN build_wikipedia_source(lang, title, resp, pageResp)
       ELSE fetch_generic_page_image(fallback_url, pageResp)

\* lines 242-253
TryFallback ==
    /\ InResolve(4)
    /\ \E resp \in SummaryResps, pageResp \in PageResps :
          Handle(4, FallbackSource(fallback_map[entry.name], entry.wiki_title, resp, pageResp))

\* lines 255-260
TryBaikeLast ==
    /\ InResolve(5)
    /\ \E resp \in BaikeResps, pageResp \in PageResps :
          Handle(5, fetch_baike_api_image(entry.name, resp, pageResp))

\* lines 301-317
Download ==
    /\ pc = "download"
    /\ \E resp \in ImageResps :
          LET ext == determine_extension(source.image_url)
              filename == sanitize_filename(entry.name, ext)
              dest == AssetPath(filename)
              got == download_file(source.image_url, resp)
          IN IF got.tag = "ok"
             THEN /\ files' = files \cup {dest}
                  /\ results' = Append(results,
                        ManifestEntry(entry.name, PathStr(AssetPath(filename)),
                                      source.page_url, source.image_url, source.provider))
                  /\ idx' = idx + 1
                  /\ pc' = "loop"
                  /\ stage' = 0
                  /\ last_error' = NoExc
                  /\ source' = NoSource
                  /\ UNCHANGED failures
             ELSE /\ EntityFailed(got.exc)
                  /\ UNCHANGED << files, results >>
    /\ downloadCalls' = Append(downloadCalls, entry.name)
    /\ outcome' = Returned(NoSource, <<>>)
    /\ UNCHANGED << inputs, disk, existing_manifest, attempts, resolveCalls >>

\* results appended to the file instead of replacing it
PersistedManifestAppend(res, old) ==
    IF res # <<>> THEN FileList(old.items \o res) ELSE old

\* lines 321-326: what manifest.json (and catalog.csv) hold afterwards
PersistedManifest(res, old) == IF res # <<>> THEN FileList(res) ELSE old

\* failures appended to the file of the previous run
PersistedFailuresAppend(fails, old) ==
    IF fails # <<>> THEN FileList(old.items \o fails) ELSE FileAbsent

\* a stale file that is never removed
PersistedFailuresKeep(fails, old) == IF fails # <<>> THEN FileList(fails) ELSE old

\* lines 328-336: what download_failures.json holds afterwards
PersistedFailures(fails, old) == IF fails # <<>> THEN FileList(fails) ELSE FileAbsent

\* lines 321-336
Persist ==
    /\ pc = "loop"
    /\ LoopDone(idx, celebrities)
    /\ catalog' = PersistedManifest(results, catalog)
    /\ manifest' = PersistedManifest(results, manifest)
    /\ failure_log' = PersistedFailures(failures, failure_log)
    /\ pc' = "done"
    /\ UNCHANGED << inputs, files, existing_manifest, results, failures, idx, stage,
                    last_error, source, attempts, outcome, resolveCalls, downloadCalls >>

Next ==
    \/ Start
    \/ SkipCached
    \/ CacheCheckCrash
    \/ BeginResolve
    \/ TryBaikePreferred
    \/ TryOverride
    \/ TryWiki
    \/ TryFallback
    \/ TryBaikeLast
    \/ Download
    \/ Persist

Spec == Init /\ [][Next]_vars

\* ------------------------------------------------- single function calls
\* A second specification: one call of one function on arguments drawn from
\* bounded sets, main() not running.
MaxNameLen == 5       \* characters of a name given to sanitize_filename
MaxPairLen == 2       \* characters of each of two names of one run

NameChars == {"A", "B", "C", "/", ":", " "}
NameTexts(n) == SeqsUpTo(NameChars, n) \ { <<>> }

ImgThumb == Url("http", <<"upload", "wikimedia", "org">>, <<"thumb">>, ".jpg")
ImgOgRev == Url("https", <<"upload", "wikimedia", "org">>, <<"og_rev">>, ".png")
ImgSrc == Url("https", <<"img", "example">>, <<"image_src">>, ".gif")
WikiDesktop == Url("https", <<"en", "wikipedia", "org">>, <<"wiki", "D">>, "")

\* summary payloads: every combination of the two image fields
SummaryPayloads ==
    { SummaryResp(FALSE, 200, TRUE, type, originalimage, thumbnail, desktop, NoUrl) :
        type \in {"standard", "not_found"},
        originalimage \in {NoUrl, ImgOrig},
        thumbnail \in {NoUrl, ImgThumb},
        desktop \in {NoUrl, WikiDesktop} }

\* page bodies: which of the three patterns match
PageBodies ==
    { PageResp(TRUE, 0, NoHtml), PageResp(FALSE, 404, NoHtml),
      PageResp(FALSE, 404, Html(ImgOg, NoUrl, NoUrl)),
      PageResp(FALSE, 200, NoHtml),
      PageResp(FALSE, 200, Html(ImgOg, NoUrl, NoUrl)),
      PageResp(FALSE, 200, Html(NoUrl, ImgOgRev, NoUrl)),
      PageResp(FALSE, 200, Html(ImgOg, ImgOgRev, ImgSrc)),
      PageResp(FALSE, 200, Html(NoUrl, NoUrl, ImgSrc)) }

\* page URLs with the Baike domain as host, inside a longer host, only in
\* the path, and nowhere
PageUrls ==
    { BaikePage,
      Url("https", <<"m", "baike", "baidu", "com">>, <<"item", "1">>, ""),
      Url("https", <<"weibo", "com">>, <<"u", "1">>, ""),
      Url("https", <<"weibo", "com">>, <<"share", "baike.baidu.com", "1">>, ""),
      Url("https", <<"baidu", "com">>, <<"s">>, "") }

SanitizeCalls ==
    [fn : {"sanitize_filename"}, name : NameTexts(MaxNameLen), ext : {".png", ".jpg"}]

GenericCalls ==
    [fn : {"fetch_generic_page_image"}, page_url : PageUrls, resp : PageBodies]

SummaryCalls ==
    [fn : {"build_wikipedia_source"}, lang : {"en", "zh"}, title : {PlainX},
     resp : SummaryResps \cup SummaryPayloads, pageResp : PageBodies]

\* two entities of one run that reach the download, and their image URLs
\* (of the same extension, of different extensions)
DestCalls ==
    [fn : {"dest"}, names : NameTexts(MaxPairLen) \X NameTexts(MaxPairLen),
     image_urls : {<<ImgOrig, ImgOrig>>, <<ImgOrig, ImgOg>>}]

\* everything but call and ret
mainState == << celebrities, fallback_map, FORCE_DOWNLOAD, manifest, catalog, failure_log,
                files, existing_manifest, results, failures, pc, idx, stage, last_error,
                source, attempts, outcome, atStart, resolveCalls, downloadCalls >>

InitPure ==
    /\ celebrities = <<>>
    /\ fallback_map = [n \in {} |-> NoUrl]
    /\ FORCE_DOWNLOAD = FALSE
    /\ manifest = FileAbsent
    /\ catalog = FileAbsent
    /\ failure_log = FileAbsent
    /\ files = {}
    /\ existing_manifest = [n \in {} |-> 0]
    /\ results = <<>>
    /\ failures = <<>>
    /\ pc = "call"
    /\ idx = 1
    /\ stage = 0
    /\ last_error = NoExc
    /\ source = NoSource
    /\ attempts = <<>>
    /\ outcome = Returned(NoSource, <<>>)
    /\ atStart = [manifest |-> manifest, catalog |-> catalog,
                  failure_log |-> failure_log, files |-> files]
    /\ resolveCalls = <<>>
    /\ downloadCalls = <<>>
    /\ \/ call \in SanitizeCalls
       \/ call \in GenericCalls
       \/ call \in SummaryCalls
       \/ call \in DestCalls
    /\ ret = <<>>

Calling(fn) == pc = "call" /\ call.fn = fn /\ ret = <<>>

ApplySanitize ==
    /\ Calling("sanitize_filename")
    /\ ret' = << sanitize_filename(call.name, call.ext) >>
    /\ UNCHANGED << mainState, call >>

ApplyGeneric ==
    /\ Calling("fetch_generic_page_image")
    /\ ret' = << fetch_generic_page_image(call.page_url, call.resp) >>
    /\ UNCHANGED << mainState, call >>

ApplySummary ==
    /\ Calling("build_wikipedia_source")
    /\ ret' = << build_wikipedia_source(call.lang, call.title, call.resp, call.pageResp) >>
    /\ UNCHANGED << mainState, call >>

\* ext, filename and dest of main(), for each of the two entities
Dest(name, image_url) ==
    LET ext == determine_extension(image_url)
        filename == sanitize_filename(name, ext)
    IN AssetPath(filename)

ApplyDest ==
    /\ Calling("dest")
    /\ ret' = << Dest(call.names[1], call.image_urls[1]),
                 Dest(call.names[2], call.image_urls[2]) >>
    /\ UNCHANGED << mainState, call >>

NextPure ==
    \/ ApplySanitize
    \/ ApplyGeneric
    \/ ApplySummary
    \/ ApplyDest

SpecPure == InitPure /\ [][NextPure]_vars

\* ================================================================== claims
\* The strategies that apply to a name, in the order of the chain.
Applies(s, name, fmap) ==
    CASE s = 1 -> name \in BAIKE_PREFERRED
      [] s = 2 -> name \in DOMAIN MANUAL_WIKI_OVERRIDES
      [] s = 4 -> name \in DOMAIN fmap
      [] OTHER -> TRUE

ApplicableOrder(name, fmap) ==
    SelectSeq(<<1, 2, 3, 4, 5>>, LAMBDA s : Applies(s, name, fmap))

IsPrefix(a, b) == Len(a) <= Len(b) /\ \A i \in 1..Len(a) : a[i] = b[i]

Tried == [i \in 1..Len(attempts) |-> attempts[i].strategy]

\* resolve_source is running or has just returned
Resolving == pc \in {"resolve", "download"}

\* The entity the history is about
Subject == IF Resolving THEN celebrities[idx] ELSE celebrities[idx - 1]

\* resolve_source was called for Subject and raised
ResolveRaised == ~Resolving /\ attempts # <<>> /\ Last(attempts).tag = "raise"

\* C1: the strategies are tried in the fixed order preferred Regional-API,
\* override, own title, fallback URL, Regional-API, skipping those that do
\* not apply; whenever resolve_source returns, every strategy before the
\* last one tried has failed, the value returned is the result of the last
\* one tried, and none after it was invoked.
C1_FirstSuccessInOrder ==
    attempts # <<>> =>
        /\ IsPrefix(Tried, ApplicableOrder(Subject.name, fallback_map))
        /\ \A i \in 1..(Len(attempts) - 1) : attempts[i].tag = "raise"
        /\ pc = "download" =>
              /\ Last(attempts).tag = "ok"
              /\ outcome.tag = "ok"
              /\ source = outcome.value

C1_Witness ==
    /\ pc = "download"
    /\ Tried = <<3, 4, 5>>
    /\ source.provider = <<"Baidu Baike">>

\* C2: for a name of BAIKE_PREFERRED the Regional-API client is the first
\* strategy tried, and when it succeeds its result is what resolve_source
\* returns and no other strategy is invoked.
C2_PreferredWins ==
    (attempts # <<>> /\ Subject.name \in BAIKE_PREFERRED) =>
        /\ attempts[1].strategy = 1
        /\ attempts[1].req = Request(BaikeApiUrl, Subject.name)
        /\ attempts[1].tag = "ok" =>
              /\ Len(attempts) = 1
              /\ pc = "download" => source.provider = <<"Baidu Baike">>

C2_Witness ==
    /\ pc = "download"
    /\ Subject.name \in BAIKE_PREFERRED
    /\ Len(attempts) = 1
    /\ attempts[1].strategy = 1
    /\ attempts[1].tag = "ok"
    /\ source.image_url = ensure_https(ImgBaike)

\* C3: when resolve_source raises, the error it raises (the one main records
\* for the entity) is the error of the last strategy that was attempted.
C3_LastErrorRaised ==
    ResolveRaised =>
        /\ failures # <<>>
        /\ Last(failures).name = Subject.name
        /\ Last(failures).error = Str(outcome.exc)

C3_Witness ==
    /\ ResolveRaised
    /\ Tried = <<3, 4, 5>>
    /\ outcome.exc.text = "Baidu Baike API HTTP"
    /\ Last(failures).error.text = "Baidu Baike API HTTP"

\* C4: resolve_source raises only when every strategy that applies to the
\* entity has been attempted (and has failed).
C4_FailsOnlyWhenExhausted ==
    ResolveRaised => Tried = ApplicableOrder(Subject.name, fallback_map)

\* Entities the loop is done with
Processed == 1..(idx - 1)

\* The entry of the loaded manifest names a file that was there at the start
CachedAtStart(name) ==
    /\ name \in DOMAIN existing_manifest
    /\ existing_manifest[name].path.t = "str"
    /\ existing_manifest[name].path.s \in atStart.files

InSeq(x, q) == \E i \in 1..Len(q) : q[i] = x

\* C5: with the force flag unset, an entity whose loaded manifest entry has
\* an existing backing file is processed without any provider client or
\* download being invoked, and its prior entry, unchanged, is the entry the
\* result set holds for it.
C5_CachedIsReused ==
    \A i \in Processed :
        LET name == celebrities[i].name
        IN (~FORCE_DOWNLOAD /\ CachedAtStart(name)) =>
              /\ ~InSeq(name, resolveCalls)
              /\ ~InSeq(name, downloadCalls)
              /\ InSeq(existing_manifest[name], results)
              /\ \A k \in 1..Len(results) :
                    results[k].name = name => results[k] = existing_manifest[name]

C5_Witness ==
    /\ pc = "loop"
    /\ idx = 3
    /\ ~FORCE_DOWNLOAD
    /\ CachedAtStart(celebrities[2].name)
    /\ resolveCalls = <<celebrities[1].name>>
    /\ results[Len(results)] = existing_manifest[celebrities[2].name]

Count(x, q) == Cardinality({ i \in 1..Len(q) : q[i] = x })

\* The loaded manifest has no entry for the name, or the file its entry
\* names was missing when the run started
NoBackingFile(name) ==
    \/ name \notin DOMAIN existing_manifest
    \/ /\ existing_manifest[name].path.t = "str"
       /\ existing_manifest[name].path.s # <<>>
       /\ existing_manifest[name].path.s \notin atStart.files

ResolvedOnceEach ==
    \A i \in Processed :
        NoBackingFile(celebrities[i].name) => Count(celebrities[i].name, resolveCalls) = 1

NoRequestTwice ==
    \A i, j \in 1..Len(attempts) : i # j => attempts[i].req # attempts[j].req

\* C6: resolve_source is invoked exactly once for every entity that has no
\* manifest entry or whose backing file is missing, and within one entity
\* no provider request is issued twice.
C6_NoDuplicateCalls == ResolvedOnceEach /\ NoRequestTwice

\* C7: no error raised while an entity is processed ends the run: the loop
\* goes on to the next entity and the run reaches its persistence step.
C7_NeverAborts == pc # "crash"

\* A FailureRecord was appended for Subject
SubjectFailed ==
    /\ ~Resolving
    /\ attempts # <<>>
    /\ failures # <<>>
    /\ Last(failures).name = Subject.name

\* C8: an entity is recorded as a failure only when every strategy that
\* applies to it has been tried and none of them produced a source.
C8_FailureMeansExhausted ==
    SubjectFailed =>
        /\ Tried = ApplicableOrder(Subject.name, fallback_map)
        /\ \A i \in 1..Len(attempts) : attempts[i].tag = "raise"

\* C9 as stated: after a completed run the manifest on disk holds exactly
\* the entries of the run's result set.
C9_ManifestIsResults == pc = "done" => manifest = FileList(results)

\* C9 amended: after a completed run with at least one success the manifest
\* holds exactly the run's result set; after a run with no success it is as
\* the run found it.
C9_ManifestIsResultsIfAny ==
    pc = "done" =>
        IF results # <<>>
        THEN manifest = FileList(results)
        ELSE manifest = atStart.manifest

C9_Witness ==
    /\ pc = "done"
    /\ results # <<>>
    /\ atStart.manifest.kind = "list"
    /\ atStart.manifest.items # <<>>
    /\ ~InSeq(atStart.manifest.items[1], manifest.items)
    /\ manifest = FileList(results)

\* C10: after a completed run download_failures.json exists exactly when
\* the run recorded a failure, and then it holds the run's FailureRecords.
C10_DiagnosticsIffFailures ==
    pc = "done" =>
        /\ (failure_log.kind = "list") <=> (failures # <<>>)
        /\ failures # <<>> => failure_log = FileList(failures)
        /\ failures = <<>> => failure_log = FileAbsent

C10_Witness ==
    /\ pc = "done"
    /\ failures = <<>>
    /\ atStart.failure_log.kind = "list"
    /\ failure_log = FileAbsent

NamesOf(q) == [i \in 1..Len(q) |-> q[i].name]

\* No name of a is a name of b
Exclusive(a, b) == \A i \in 1..Len(a), j \in 1..Len(b) : a[i].name # b[j].name

\* C11 as stated: at every point of the run no name has both an entry in
\* the result set and a FailureRecord, and after the run no name has both
\* an entry in manifest.json and a record in download_failures.json.
C11_NeverBoth ==
    /\ Exclusive(results, failures)
    /\ pc = "done" => Exclusive(manifest.items, failure_log.items)

\* C11 amended: the result set and the failure set never share a name, and
\* after a run that recorded at least one success (so that it wrote the
\* manifest) manifest.json and download_failures.json share no name.
C11_NeverBothWritten ==
    /\ Exclusive(results, failures)
    /\ (pc = "done" /\ results # <<>>) => Exclusive(manifest.items, failure_log.items)

C11_Witness ==
    /\ pc = "done"
    /\ results # <<>>
    /\ failures # <<>>
    /\ manifest = FileList(results)
    /\ failure_log = FileList(failures)
    /\ atStart.failure_log.kind = "list"

\* C12: an entity whose loaded manifest entry does not name an existing
\* file (path missing, empty or not there) never takes the skip path:
\* resolve_source is invoked for it.
C12_SkipNeedsFile ==
    \A i \in Processed :
        LET name == celebrities[i].name
        IN (name \in DOMAIN existing_manifest /\ ~CachedAtStart(name)) =>
              /\ InSeq(name, resolveCalls)
              /\ ~InSeq(existing_manifest[name], results)

\* C13: a manifest that is not JSON, or not a list of objects with a name,
\* is an empty cache: the run goes on and invokes resolve_source for every
\* entity.
C13_MalformedIsEmptyCache ==
    atStart.manifest.kind \in {"badjson", "badshape"} =>
        /\ pc # "crash_load"
        /\ DOMAIN existing_manifest = {}
        /\ \A i \in Processed : Count(celebrities[i].name, resolveCalls) = 1

\* C14: with FORCE_DOWNLOAD set, resolve_source is invoked for every entity
\* the loop processes, cached or not, and no entry of the loaded manifest is
\* copied into the result set.
C14_ForceBypassesCache ==
    FORCE_DOWNLOAD =>
        /\ \A i \in Processed : Count(celebrities[i].name, resolveCalls) = 1
        /\ \A k \in 1..Len(results), n \in DOMAIN existing_manifest :
              results[k] # existing_manifest[n]

C14_Witness ==
    /\ FORCE_DOWNLOAD
    /\ pc = "loop"
    /\ idx = 2
    /\ CachedAtStart(celebrities[1].name)
    /\ resolveCalls = <<celebrities[1].name>>
    /\ Len(results) = 1
    /\ results[1].provider # <<"Old">>

\* C17: manifest.json, catalog.csv and download_failures.json are neither
\* written nor removed while an entity is still unprocessed: until the loop
\* is over they hold what the run found.
C17_PersistOnlyAtEnd ==
    (pc # "done" \/ idx <= Len(celebrities)) =>
        /\ manifest = atStart.manifest
        /\ catalog = atStart.catalog
        /\ failure_log = atStart.failure_log

C17_Witness ==
    /\ pc = "loop"
    /\ idx = 2
    /\ Len(celebrities) = 2
    /\ results # <<>>
    /\ manifest = atStart.manifest
    /\ manifest # FileList(results)

\* C20: when the loop is over every entity is accounted for exactly once
\* in the result set and the failure set taken together, and the entries of
\* the result set follow the order of the entities in the input.
C20_AccountedOnceInOrder ==
    (pc \in {"loop", "done"} /\ idx > Len(celebrities)) =>
        /\ Len(results) + Len(failures) = Len(celebrities)
        /\ \A i \in 1..Len(celebrities) :
              Count(celebrities[i].name, NamesOf(results))
                + Count(celebrities[i].name, NamesOf(failures)) = 1
        /\ \A a, b \in 1..Len(results) :
              a < b => \E i, j \in 1..Len(celebrities) :
                          /\ i < j
                          /\ celebrities[i].name = results[a].name
                          /\ celebrities[j].name = results[b].name

C20_Witness ==
    /\ pc = "done"
    /\ Len(celebrities) = 2
    /\ Len(results) = 2
    /\ results[1].provider = <<"Old">>
    /\ results[2].provider # <<"Old">>


\* --- sanitize_filename
Sanitized == call.fn = "sanitize_filename" /\ ret # <<>>

Unsafe(c) == c \in UnsafeChars

\* the maximal runs of unsafe characters of a name
UnsafeRuns(name) ==
    Cardinality({ i \in 1..Len(name) :
                    Unsafe(name[i]) /\ (i = 1 \/ ~Unsafe(name[i-1])) })

Stripped(name) == SelectSeq(name, LAMBDA c : ~Unsafe(c) /\ c # " ")

\* C15 as stated: the unsafe characters and the spaces are deleted from the
\* name and the extension appended, "A/B:C" with ".png" giving "ABC.png".
C15_UnsafeStripped ==
    Sanitized => ret[1] = Stripped(call.name) \o <<call.ext>>

\* C15, amended: the file name holds no unsafe character and no space and
\* ends with the extension; each maximal run of unsafe characters of the
\* name has become one underscore, the other characters are kept in order;
\* "A/B:C" with ".png" gives "A_B_C.png".
C15_UnsafeReplaced ==
    Sanitized =>
        LET out == ret[1]
            stem == SubSeq(out, 1, Len(out) - 1)
        IN /\ Len(out) >= 1 /\ Last(out) = call.ext
           /\ \A k \in 1..Len(stem) : ~Unsafe(stem[k]) /\ stem[k] # " "
           /\ Count("_", stem) = UnsafeRuns(call.name)
           /\ SelectSeq(stem, LAMBDA c : c # "_") = Stripped(call.name)
           /\ (call.name = <<"A", "/", "B", ":", "C">> /\ call.ext = ".png")
                => out = <<"A", "_", "B", "_", "C", ".png">>

C15_Witness ==
    /\ Sanitized
    /\ call.name = <<"A", "/", "B", ":", "C">>
    /\ call.ext = ".png"
    /\ ret[1] = <<"A", "_", "B", "_", "C", ".png">>


\* --- fetch_generic_page_image
GenericReturned ==
    call.fn = "fetch_generic_page_image" /\ ret # <<>> /\ ret[1].tag = "ok"

\* the host of the URL contains baike.baidu.com
HostHasBaike(url) ==
    \E i \in 1..(Len(url.host) - 2) :
        url.host[i] = "baike" /\ url.host[i+1] = "baidu" /\ url.host[i+2] = "com"

\* C16: the Generic-Page client labels its result "Baidu Baike" exactly
\* when the host of the page URL contains baike.baidu.com, and with the
\* host of the page URL otherwise, also when that text occurs in the path.
C16_LabelFollowsHost ==
    GenericReturned =>
        ret[1].value.provider =
            (IF HostHasBaike(call.page_url) THEN <<"Baidu Baike">> ELSE call.page_url.host)

\* --- build_wikipedia_source
\* the summary request returned status 200 with a payload that is not the
\* not-found page
SummaryAnswered ==
    /\ call.fn = "build_wikipedia_source"
    /\ ret # <<>>
    /\ ~call.resp.exc /\ call.resp.status = 200 /\ call.resp.json_ok
    /\ call.resp.type # "not_found"

\* what the HTML of the page gives: its og:image of a 200 response
PageOgImage(resp) ==
    IF resp.exc \/ resp.status # 200 THEN NoUrl
    ELSE IF resp.html.og # NoUrl THEN resp.html.og ELSE resp.html.og_rev

\* C18: on a summary answered with status 200 and not not-found, the
\* Encyclopedia-Summary client fails if and only if the payload has no
\* original image, no thumbnail and the page HTML gives no og:image; when
\* it succeeds the image is the original image if present, else the
\* thumbnail, else the one of the page HTML, and the provider is the
\* uppercased language followed by " Wikipedia".
C18_SummaryImageOrder ==
    SummaryAnswered =>
        LET resp == call.resp
            og == PageOgImage(call.pageResp)
            chosen == IF resp.originalimage # NoUrl THEN resp.originalimage
                      ELSE IF resp.thumbnail # NoUrl THEN resp.thumbnail
                      ELSE og
        IN /\ ret[1].tag = "raise" <=> chosen = NoUrl
           /\ ret[1].tag = "ok" =>
                /\ ret[1].value.image_url = ensure_https(chosen)
                /\ ret[1].value.provider = <<Upper(call.lang), " Wikipedia">>
                /\ call.lang = "en" => ret[1].value.provider[1] = "EN"

C18_Witness ==
    /\ SummaryAnswered
    /\ call.resp.originalimage = ImgOrig
    /\ call.resp.thumbnail = ImgThumb
    /\ call.lang = "en"
    /\ ret[1].tag = "ok"
    /\ ret[1].value.image_url = ImgOrig
    /\ ret[1].value.provider = <<"EN", " Wikipedia">>

\* --- destination files
\* C19: two distinct entity names of one run never map to the same
\* destination file, whatever the extensions of their images.
C19_DestinationsDistinct ==
    (call.fn = "dest" /\ ret # <<>> /\ call.names[1] # call.names[2]) =>
        ret[1] # ret[2]

====
